---- MODULE Spec2Model ----
(***************************************************************************)
(* Pakel-Scaffold: make_project.py.  The repository holds two versions of  *)
(* the program: src/make_project.py ("v1", box-drawing levels only) and    *)
(* src/src/make_project.py ("v2", indent width, exclusion patterns,        *)
(* templates, JSON export, counters).  The parser of both versions and the *)
(* FileSystemCreator of v2 are modelled.                                   *)
(*                                                                         *)
(* Text is a sequence of one-character strings.  The box-drawing glyphs    *)
(* are written with ASCII stand-ins: "|" is U+2502, "+" is U+251C, "L" is  *)
(* U+2514 and "-" is U+2500.                                               *)
(***************************************************************************)
EXTENDS Integers, Sequences, FiniteSets, TLC

VARIABLES
    \* which make_project.py runs, and the state of ProjectTreeParser.parse
    impl, nodes, stack, status, err, lineno, lcount, fcount, last,
    \* FileSystemCreator: its configuration and its counters
    dry_run, confirm, templates_dir, exclude_patterns, export_json,
    count_dirs_created, count_files_created, count_skipped,
    \* execute: position, pending recurse calls, the answer read, and the exit
    \* status of the process (None while it runs)
    epc, work, resp, exit_status,
    \* the filesystem, its state when execute was called, read-only directories
    fs, fs0, readonly,
    \* what execute did to each node it processed; which run this is
    acts, run

pvars == <<impl, nodes, stack, status, err, lineno, lcount, fcount, last>>

cfgvars == <<dry_run, confirm, templates_dir, exclude_patterns, export_json, readonly>>

cntvars == <<count_dirs_created, count_files_created, count_skipped>>

evars == <<cfgvars, cntvars, epc, work, resp, exit_status, fs, fs0, acts, run>>

vars == <<pvars, evars>>

\* ------------------------------------------------------------ bounds
\* Raw input lines read by one parse.
MaxLines == 3

\* Lines below the root line in the texts whose trees execute is run on.
MaxExecLines == 2

\* ------------------------------------------------------------ characters
SP == " "
TAB == "\t"
VERT == "|"
TEE == "+"
ELL == "L"
DASH == "-"
SLASH == "/"
HASH == "#"
DOT == "."

\* str.strip()/rstrip() without arguments and \s: the whitespace of the alphabet.
WS == {SP, TAB}

\* The character class [\s and the four glyphs] of _pure_tree_art and of the
\* name extraction.
Art == WS \cup {VERT, TEE, ELL, DASH}

IndentWidth == 4

\* ------------------------------------------------------------ str helpers
RECURSIVE FindFrom(_, _, _)
FindFrom(s, c, i) ==
    IF i > Len(s) THEN -1
    ELSE IF s[i] = c THEN i - 1
    ELSE FindFrom(s, c, i + 1)

\* str.find(c): the 0-based index of the first c, -1 when there is none.
Find(s, c) == FindFrom(s, c, 1)

RECURSIVE Count(_, _)
Count(s, c) ==
    IF s = <<>> THEN 0
    ELSE (IF Head(s) = c THEN 1 ELSE 0) + Count(Tail(s), c)

RECURSIVE LStripSet(_, _)
LStripSet(s, cs) ==
    IF s # <<>> /\ Head(s) \in cs THEN LStripSet(Tail(s), cs) ELSE s

RECURSIVE RStripSet(_, _)
RStripSet(s, cs) ==
    IF s # <<>> /\ s[Len(s)] \in cs
    THEN RStripSet(SubSeq(s, 1, Len(s) - 1), cs)
    ELSE s

StripSet(s, cs) == LStripSet(RStripSet(s, cs), cs)

EndsWith(s, c) == s # <<>> /\ s[Len(s)] = c

\* str.split(c): the pieces between the occurrences of c, empty pieces kept.
RECURSIVE Split(_, _)
Split(s, c) ==
    LET i == Find(s, c)
    IN  IF i = -1 THEN <<s>>
        ELSE <<SubSeq(s, 1, i)>> \o Split(SubSeq(s, i + 2, Len(s)), c)

\* line.split(HASH, 1)[0]
SplitComment(line) ==
    LET i == Find(line, HASH)
    IN  IF i = -1 THEN line ELSE SubSeq(line, 1, i)

MinOf(S) == CHOOSE x \in S : \A y \in S : x <= y

\* names_raw without one trailing SLASH
DropSlash(n) == IF EndsWith(n, SLASH) THEN SubSeq(n, 1, Len(n) - 1) ELSE n

\* the stripped, non-empty pieces of names_raw.split(SLASH)
RECURSIVE StripParts(_)
StripParts(ps) ==
    IF ps = <<>> THEN <<>>
    ELSE LET p == StripSet(Head(ps), WS)
         IN  (IF p # <<>> THEN <<p>> ELSE <<>>) \o StripParts(Tail(ps))

SplitParts(names_raw) == StripParts(Split(names_raw, SLASH))

_pure_tree_art(t) == Len(t) >= 1 /\ \A i \in 1..Len(t) : t[i] \in Art

\* ------------------------------------------------------------ v2 line analysis
Txt2(orig) == RStripSet(SplitComment(orig), WS)

CutIdx2(txt) ==
    LET cuts == {Find(txt, TEE), Find(txt, ELL)} \ {-1}
    IN  IF cuts # {} THEN MinOf(cuts)
        ELSE Len(txt) - Len(LStripSet(txt, {SP}))

\* The level counted as v1 counts it.
Level2_vert(txt) == Count(SubSeq(txt, 1, CutIdx2(txt)), VERT)

Level2(txt) == CutIdx2(txt) \div IndentWidth

IsDir2(txt) == EndsWith(StripSet(txt, WS), SLASH)

NamesRaw2(txt) == DropSlash(StripSet(LStripSet(txt, Art), WS))

\* ------------------------------------------------------------ v1 line analysis
Txt1(line) == SplitComment(line)

CutIdx1(txt) ==
    LET cut_positions == {Find(txt, TEE), Find(txt, ELL)} \ {-1}
    IN  IF cut_positions # {} THEN MinOf(cut_positions) ELSE 0

Level1(txt) == Count(SubSeq(txt, 1, CutIdx1(txt)), VERT)

IsDir1(orig) == EndsWith(RStripSet(orig, WS), SLASH)

NamesRaw1(txt) ==
    DropSlash(RStripSet(
        LStripSet(SubSeq(txt, CutIdx1(txt) + 1, Len(txt)), {TEE, ELL, DASH, SP}),
        WS))

\* ------------------------------------------------------------ both versions
Txt(v, line) == IF v = "v2" THEN Txt2(line) ELSE Txt1(line)

Level(v, txt) == IF v = "v2" THEN Level2(txt) ELSE Level1(txt)

IsDir(v, orig, txt) == IF v = "v2" THEN IsDir2(txt) ELSE IsDir1(orig)

NamesRaw(v, txt) == IF v = "v2" THEN NamesRaw2(txt) ELSE NamesRaw1(txt)

\* The line carries no entry: continue.  v2 also skips a line whose name
\* has no non-empty segment; v1 goes on with an empty name_list.
NoEntry(v, names_raw) ==
    IF v = "v2"
    THEN names_raw = <<>> \/ SplitParts(names_raw) = <<>>
    ELSE StripSet(names_raw, WS) = <<>>

\* ------------------------------------------------------------ node model
DirectoryNode(name, parent) ==
    [name |-> name, kind |-> "dir", parent |-> parent, children |-> <<>>]

FileNode(name, parent) ==
    [name |-> name, kind |-> "file", parent |-> parent, children |-> <<>>]

\* add_child without the duplicate test.
add_child_always(ns, p, c) == [ns EXCEPT ![p].children = Append(@, c)]

\* DirectoryNode.add_child on the arena ns: p is the directory, c the child.
add_child(ns, p, c) ==
    IF \E k \in 1..Len(ns[p].children) : ns[ns[p].children[k]].name = ns[c].name
    THEN ns
    ELSE [ns EXCEPT ![p].children = Append(@, c)]

\* The class of the node made for one segment.
NodeClass(name, is_last, is_dir) ==
    IF ~is_last THEN "dir"
    ELSE IF is_dir THEN "dir"
    ELSE IF Find(name, DOT) # -1 THEN "file"
    ELSE "file"

\* The loop over the segments: every created node joins the arena, add_child
\* decides whether it joins its parent, a directory is pushed either way.
RECURSIVE AttachParts(_, _, _, _, _, _)
AttachParts(ns, stk, parent, parts, idx, is_dir) ==
    IF idx > Len(parts) THEN [nodes |-> ns, stack |-> stk]
    ELSE LET name == parts[idx]
             cls == NodeClass(name, idx = Len(parts), is_dir)
             id == Len(ns) + 1
             node == IF cls = "dir" THEN DirectoryNode(name, parent)
                     ELSE FileNode(name, parent)
             ns2 == add_child(Append(ns, node), parent, id)
         IN  IF cls = "dir"
             THEN AttachParts(ns2, Append(stk, id), id, parts, idx + 1, is_dir)
             ELSE AttachParts(ns2, stk, parent, parts, idx + 1, is_dir)

\* while len(stack) > level + 1: stack.pop()
PopTo(stk, level) == SubSeq(stk, 1, level + 1)

NoErr == [kind |-> "none", lineno |-> 0, level |-> 0, max |-> 0]

\* The ParseError of an over-deep line.  v2 names the line of the input, the
\* level and the maximum; v1 names the position among the surviving lines
\* and the level (max -1: not in the message).
IndentError(v, ln, fc, level, height) ==
    IF v = "v2"
    THEN [kind |-> "indent", lineno |-> ln, level |-> level, max |-> height - 1]
    ELSE [kind |-> "indent", lineno |-> fc, level |-> level, max |-> -1]

NoLast ==
    [outcome |-> "none", line |-> <<>>, txt |-> <<>>, level |-> 0, height |-> 0,
     is_dir |-> FALSE, parts |-> <<>>, first |-> 0]

\* One raw line of the input through parse.  st holds the parser's state,
\* the result is the state after the line.
ParseLine(v, st, line) ==
    LET ln == st.lineno + 1
        txt == Txt(v, line)
        base == [st EXCEPT !.lineno = ln]
        seen(outcome) ==
            [outcome |-> outcome, line |-> line, txt |-> txt, level |-> 0,
             height |-> Len(st.stack), is_dir |-> FALSE, parts |-> <<>>,
             first |-> Len(st.nodes) + 1]
    IN  IF StripSet(txt, WS) = <<>>
        THEN [base EXCEPT !.last = seen("blank")]
        ELSE IF _pure_tree_art(txt)
        THEN [base EXCEPT !.lcount = @ + 1, !.last = seen("art")]
        ELSE IF st.fcount = 0
        THEN LET root_name == StripSet(RStripSet(txt, {SLASH, SP}), WS)
             IN  IF v = "v2" /\ root_name = <<>>
                 THEN [base EXCEPT !.lcount = @ + 1, !.fcount = 1,
                                   !.status = "error",
                                   !.err = [kind |-> "rootname", lineno |-> ln,
                                            level |-> 0, max |-> 0],
                                   !.last = seen("rooterror")]
                 ELSE [base EXCEPT !.lcount = @ + 1, !.fcount = 1,
                                   !.nodes = <<DirectoryNode(root_name, 0)>>,
                                   !.stack = <<1>>,
                                   !.last = seen("root")]
        ELSE LET fc == st.fcount + 1
                 level == Level(v, txt)
                 is_dir == IsDir(v, line, txt)
                 names_raw == NamesRaw(v, txt)
                 parts == SplitParts(names_raw)
                 b2 == [base EXCEPT !.lcount = @ + 1, !.fcount = fc]
                 info(outcome) ==
                     [seen(outcome) EXCEPT !.level = level, !.is_dir = is_dir,
                                           !.parts = parts]
             IN  IF NoEntry(v, names_raw)
                 THEN [b2 EXCEPT !.last = info("noentry")]
                 ELSE IF level + 1 > Len(st.stack)
                 THEN [b2 EXCEPT !.status = "error",
                                 !.err = IndentError(v, ln, fc, level, Len(st.stack)),
                                 !.last = info("error")]
                 ELSE LET stk == PopTo(st.stack, level)
                          r == AttachParts(st.nodes, stk, stk[Len(stk)], parts, 1, is_dir)
                      IN  [b2 EXCEPT !.nodes = r.nodes, !.stack = r.stack,
                                     !.last = info("entry")]

PStart ==
    [nodes |-> <<>>, stack |-> <<>>, status |-> "run", err |-> NoErr,
     lineno |-> 0, lcount |-> 0, fcount |-> 0, last |-> NoLast]

\* raw.splitlines() has been consumed: the two emptiness errors, or the root.
ParseEnd(v, st) ==
    IF v = "v2" /\ st.lcount = 0
    THEN [st EXCEPT !.status = "error",
                    !.err = [kind |-> "empty", lineno |-> 0, level |-> 0, max |-> 0]]
    ELSE IF st.fcount = 0
    THEN [st EXCEPT !.status = "error",
                    !.err = [kind |-> (IF v = "v2" THEN "allart" ELSE "empty"),
                             lineno |-> 0, level |-> 0, max |-> 0]]
    ELSE [st EXCEPT !.status = "done"]

\* parse(raw) on the lines of raw, from state st on: a ParseError ends it.
RECURSIVE ParseFrom(_, _, _)
ParseFrom(v, st, lines) ==
    IF st.status # "run" THEN st
    ELSE IF lines = <<>> THEN ParseEnd(v, st)
    ELSE ParseFrom(v, ParseLine(v, st, Head(lines)), Tail(lines))

parse(v, lines) == ParseFrom(v, PStart, lines)

\* ------------------------------------------------------------ input lines
A == <<"a">>
B == <<"b">>
ADotB == <<"a", DOT, "b">>
APathB == <<"a", SLASH, "b">>
Sp2 == <<SP, SP>>
Sp4 == <<SP, SP, SP, SP>>
Tab4 == <<TAB, TAB, TAB, TAB>>

Cat(ps, bs, ts) == {p \o b \o t : p \in ps, b \in bs, t \in ts}

\* The raw lines a text is made of: plain, indented, box-drawn (aligned to
\* the indent width or not), commented, comment-only, blank, pure art.
Lines ==
    Cat({<<>>}, {A, B, ADotB, APathB}, {<<>>, <<SLASH>>})
    \cup Cat({<<>>}, {A}, {<<HASH>>, <<SLASH, HASH>>})
    \cup {<<HASH>>, <<>>, <<VERT>>, <<SLASH>>}
    \cup Cat({Sp4, <<VERT, SP, SP, SP, TEE, SP>>}, {A, B}, {<<>>, <<SLASH>>})
    \cup Cat({Sp2, Tab4, <<TEE, DASH, SP>>, <<SP, SP, SP, SP, ELL, SP>>,
              <<VERT, SP, TEE, SP>>,
              <<VERT, SP, SP, SP, VERT, SP, SP, SP, TEE, SP>>},
             {A}, {<<>>})

\* ------------------------------------------------------------ filesystem
\* A path is a sequence of names, <<>> the working directory.  fs.dirs is the
\* set of directories, fs.files maps each regular file to its content.
EmptyFS == [dirs |-> {}, files |-> <<>>]

IsDirAt(f, p) == p = <<>> \/ p \in f.dirs

IsFileAt(f, p) == p \in DOMAIN f.files

ExistsAt(f, p) == IsDirAt(f, p) \/ IsFileAt(f, p)

\* What stands at p: nothing, a directory, or a file and its content.
EntryAt(f, p) ==
    IF IsDirAt(f, p) THEN <<"dir">>
    ELSE IF IsFileAt(f, p) THEN <<"file", f.files[p]>>
    ELSE <<"absent">>

Parent(p) == SubSeq(p, 1, Len(p) - 1)

Prefixes(p) == {SubSeq(p, 1, k) : k \in 1..Len(p)}

\* Path / name: the name's non-empty segments follow the base.
PathJoin(base, name) == base \o SplitParts(name)

RECURSIVE JoinNames(_)
JoinNames(p) ==
    IF Len(p) = 1 THEN p[1]
    ELSE p[1] \o <<SLASH>> \o JoinNames(Tail(p))

\* str(path)
PathStr(p) == IF p = <<>> THEN <<DOT>> ELSE JoinNames(p)

WithFile(f, p, content) ==
    [f EXCEPT !.files = [q \in DOMAIN f.files \cup {p} |->
                            IF q = p THEN content ELSE f.files[q]]]

\* An entry cannot be made in a read-only directory.
CanCreate(f, ro, p) == ~ExistsAt(f, p) => Parent(p) \notin ro

\* Path.mkdir(parents=True, exist_ok=True): ok is FALSE when it raises
\* (a regular file on the way, or a read-only directory above what is missing).
mkdir(f, ro, p) ==
    LET missing == {q \in Prefixes(p) : ~ExistsAt(f, q)}
        blocked == \/ \E q \in Prefixes(p) : IsFileAt(f, q)
                   \/ \E q \in missing : ExistsAt(f, Parent(q)) /\ Parent(q) \in ro
    IN  IF blocked THEN [ok |-> FALSE, fs |-> f]
        ELSE [ok |-> TRUE, fs |-> [f EXCEPT !.dirs = @ \cup Prefixes(p)]]

\* touch that empties the file it finds.
touch_truncate(f, ro, p) ==
    IF IsDirAt(f, p) THEN [ok |-> TRUE, fs |-> f]
    ELSE IF ~CanCreate(f, ro, p) THEN [ok |-> FALSE, fs |-> f]
    ELSE [ok |-> TRUE, fs |-> WithFile(f, p, <<>>)]

\* Path.touch(exist_ok=True): an existing file or directory is left alone.
touch(f, ro, p) ==
    IF ExistsAt(f, p) THEN [ok |-> TRUE, fs |-> f]
    ELSE IF ~CanCreate(f, ro, p) THEN [ok |-> FALSE, fs |-> f]
    ELSE [ok |-> TRUE, fs |-> WithFile(f, p, <<>>)]

\* Path.write_text(content)
write_text(f, ro, p, content) ==
    IF IsDirAt(f, p) \/ ~IsDirAt(f, Parent(p)) \/ ~CanCreate(f, ro, p)
    THEN [ok |-> FALSE, fs |-> f]
    ELSE [ok |-> TRUE, fs |-> WithFile(f, p, content)]

\* ------------------------------------------------------------ FileSystemCreator
\* A compiled pattern: a literal, anchored at the start (^lit) or not.
Pattern(anchor, lit) == [anchor |-> anchor, lit |-> lit]

OccursAt(s, lit, k) ==
    /\ k + Len(lit) - 1 <= Len(s)
    /\ \A i \in 1..Len(lit) : s[k + i - 1] = lit[i]

\* pat.search(s)
search(pat, s) ==
    IF pat.anchor THEN OccursAt(s, pat.lit, 1)
    ELSE \E k \in 1..(Len(s) + 1) : OccursAt(s, pat.lit, k)

_matches_exclude(pats, rel_path) ==
    \E i \in 1..Len(pats) : search(pats[i], PathStr(rel_path))

\* An optional value: <<>> is None, <<x>> is x.
None == <<>>

Some(x) == <<x>>

\* A file of the templates directory: its text, and whether read_text works.
Template(text, readable) == [text |-> text, readable |-> readable]

\* The content found for filename, None when there is none.  tdir is None
\* or the templates directory, a function from file names to templates.
_get_template_content(tdir, filename) ==
    IF tdir = None THEN None
    ELSE IF filename \in DOMAIN tdir[1] /\ tdir[1][filename].readable
    THEN Some(tdir[1][filename].text)
    ELSE None

\* What one call did: the step taken for a node and what it left behind.
Act(node, path, rel, op, ok, before, after) ==
    [node |-> node, path |-> path, rel |-> rel, op |-> op, ok |-> ok,
     before |-> before, after |-> after]

\* The result of _create_dir / _create_file: the filesystem, the counter
\* increments, the act, and whether an exception left the call.
Outcome(f, d, fl, sk, raised, act) ==
    [fs |-> f, dirs |-> d, files |-> fl, skipped |-> sk, raised |-> raised,
     act |-> act]

\* _create_dir that does not count the directory of a dry run.
_create_dir_nocount(f, ro, dry, pats, node, path, rel_path) ==
    LET before == EntryAt(f, path)
    IN  IF _matches_exclude(pats, rel_path)
        THEN Outcome(f, 0, 0, 1, FALSE, Act(node, path, rel_path, "skip", TRUE, before, before))
        ELSE IF dry
        THEN Outcome(f, 0, 0, 0, FALSE, Act(node, path, rel_path, "dry-mkdir", TRUE, before, before))
        ELSE LET r == mkdir(f, ro, path)
             IN  Outcome(r.fs, IF r.ok THEN 1 ELSE 0, 0, 0, ~r.ok,
                         Act(node, path, rel_path, "mkdir", r.ok, before, EntryAt(r.fs, path)))

_create_dir(f, ro, dry, pats, node, path, rel_path) ==
    LET before == EntryAt(f, path)
    IN  IF _matches_exclude(pats, rel_path)
        THEN Outcome(f, 0, 0, 1, FALSE, Act(node, path, rel_path, "skip", TRUE, before, before))
        ELSE IF dry
        THEN Outcome(f, 1, 0, 0, FALSE, Act(node, path, rel_path, "dry-mkdir", TRUE, before, before))
        ELSE LET r == mkdir(f, ro, path)
             IN  Outcome(r.fs, IF r.ok THEN 1 ELSE 0, 0, 0, ~r.ok,
                         Act(node, path, rel_path, "mkdir", r.ok, before, EntryAt(r.fs, path)))

_create_file(f, ro, dry, pats, tdir, node, path, rel_path) ==
    LET before == EntryAt(f, path)
        content == _get_template_content(tdir, path[Len(path)])
    IN  IF _matches_exclude(pats, rel_path)
        THEN Outcome(f, 0, 0, 1, FALSE, Act(node, path, rel_path, "skip", TRUE, before, before))
        ELSE IF dry
        THEN Outcome(f, 0, 1, 0, FALSE, Act(node, path, rel_path, "dry-touch", TRUE, before, before))
        ELSE LET m == mkdir(f, ro, Parent(path))
             IN  IF ~m.ok
                 THEN Outcome(f, 0, 0, 0, TRUE,
                              Act(node, path, rel_path, "parent-mkdir", FALSE, before, before))
                 ELSE LET r == IF content # None
                               THEN write_text(m.fs, ro, path, content[1])
                               ELSE touch(m.fs, ro, path)
                      IN  Outcome(r.fs, 0, 1, 0, FALSE,
                                  Act(node, path, rel_path,
                                      IF content # None THEN "write" ELSE "touch",
                                      r.ok, before, EntryAt(r.fs, path)))

\* A pending call recurse(node, base_path, rel_base).
Frame(node, base_path, rel_base) ==
    [node |-> node, base_path |-> base_path, rel_base |-> rel_base]

\* The calls of `for child in node.children: recurse(child, ...)`, in order.
ChildFrames(ns, node, current_path, current_rel) ==
    [k \in 1..Len(ns[node].children) |->
        Frame(ns[node].children[k], current_path, current_rel)]

\* ans = input(...).strip().lower();  ans != 'y' aborts.
Lower(c) == IF c = "Y" THEN "y" ELSE c

LowerAll(s) == [i \in 1..Len(s) |-> Lower(s[i])]

\* The prompt takes the empty answer for a yes.
Affirmative_default_yes(answer) ==
    LowerAll(StripSet(answer, WS)) \in {<<"y">>, <<>>}

Affirmative(answer) == LowerAll(StripSet(answer, WS)) = <<"y">>

\* What input() can give: a line, or no input at all.
Answer(kind, text) == [kind |-> kind, text |-> text]

NoAnswer == Answer("none", <<>>)

Answers ==
    {Answer("line", t) : t \in {<<"y">>, <<SP, "Y">>, <<"y", "e", "s">>, <<>>}}
    \cup {Answer("EOFError", <<>>), Answer("KeyboardInterrupt", <<>>)}

\* The file --output-json names, and what is written to it.
ExportPath == <<<<"j">>>>

ExportText == <<"{", "}">>

SetInit(r) ==
    /\ nodes = r.nodes
    /\ stack = r.stack
    /\ status = r.status
    /\ err = r.err
    /\ lineno = r.lineno
    /\ lcount = r.lcount
    /\ fcount = r.fcount
    /\ last = r.last

\* ------------------------------------------------------------ parser machine
PState ==
    [nodes |-> nodes, stack |-> stack, status |-> status, err |-> err,
     lineno |-> lineno, lcount |-> lcount, fcount |-> fcount, last |-> last]

SetPState(r) ==
    /\ nodes' = r.nodes
    /\ stack' = r.stack
    /\ status' = r.status
    /\ err' = r.err
    /\ lineno' = r.lineno
    /\ lcount' = r.lcount
    /\ fcount' = r.fcount
    /\ last' = r.last

\* parse takes the next line of its input.
ReadLine ==
    /\ status = "run"
    /\ lineno < MaxLines
    /\ \E line \in Lines : SetPState(ParseLine(impl, PState, line))
    /\ UNCHANGED <<impl, evars>>

\* The input has no further line.
EndOfInput ==
    /\ status = "run"
    /\ SetPState(ParseEnd(impl, PState))
    /\ UNCHANGED <<impl, evars>>

\* No FileSystemCreator exists while parse runs.
ExecIdle ==
    /\ dry_run = FALSE
    /\ confirm = TRUE
    /\ templates_dir = None
    /\ exclude_patterns = <<>>
    /\ export_json = None
    /\ count_dirs_created = 0
    /\ count_files_created = 0
    /\ count_skipped = 0
    /\ epc = "idle"
    /\ work = <<>>
    /\ resp = NoAnswer
    /\ exit_status = None
    /\ fs = EmptyFS
    /\ fs0 = EmptyFS
    /\ readonly = {}
    /\ acts = <<>>
    /\ run = 0

Init ==
    /\ impl \in {"v1", "v2"}
    /\ SetInit(PStart)
    /\ ExecIdle

Next == ReadLine \/ EndOfInput

Spec == Init /\ [][Next]_vars

\* ------------------------------------------------------------ execute machine
\* execute up to the first recurse call: the confirmation gate.
Begin ==
    /\ epc = "start"
    /\ \/ /\ confirm /\ ~dry_run
          /\ \E answer \in Answers :
                /\ resp' = answer
                /\ IF answer.kind = "line" /\ Affirmative(answer.text)
                   THEN /\ epc' = "walk"
                        /\ work' = <<Frame(1, <<>>, <<>>)>>
                        /\ UNCHANGED exit_status
                   ELSE /\ epc' = "exit"
                        /\ exit_status' = Some(1)
                        /\ UNCHANGED work
       \/ /\ ~(confirm /\ ~dry_run)
          /\ epc' = "walk"
          /\ work' = <<Frame(1, <<>>, <<>>)>>
          /\ UNCHANGED <<resp, exit_status>>
    /\ UNCHANGED <<pvars, cfgvars, cntvars, fs, fs0, acts, run>>

\* One call of recurse: the node's own action, then its children pending.
Recurse ==
    /\ epc = "walk"
    /\ work # <<>>
    /\ LET fr == Head(work)
           node == fr.node
           current_path == PathJoin(fr.base_path, nodes[node].name)
           current_rel == PathJoin(fr.rel_base, nodes[node].name)
           o == IF nodes[node].kind = "dir"
                THEN _create_dir(fs, readonly, dry_run, exclude_patterns,
                                 node, current_path, current_rel)
                ELSE _create_file(fs, readonly, dry_run, exclude_patterns,
                                  templates_dir, node, current_path, current_rel)
       IN  /\ fs' = o.fs
           /\ count_dirs_created' = count_dirs_created + o.dirs
           /\ count_files_created' = count_files_created + o.files
           /\ count_skipped' = count_skipped + o.skipped
           /\ acts' = Append(acts, o.act)
           /\ IF o.raised
              THEN /\ epc' = "raised"
                   /\ exit_status' = Some(1)
                   /\ work' = <<>>
              ELSE /\ work' = (IF nodes[node].kind = "dir"
                               THEN ChildFrames(nodes, node, current_path, current_rel)
                               ELSE <<>>) \o Tail(work)
                   /\ UNCHANGED <<epc, exit_status>>
    /\ UNCHANGED <<pvars, cfgvars, resp, fs0, run>>

\* After the traversal: the export if asked for, the summary, the return.
Export ==
    /\ epc = "walk"
    /\ work = <<>>
    /\ fs' = IF export_json # None
             THEN write_text(fs, readonly, export_json[1], ExportText).fs
             ELSE fs
    /\ epc' = "done"
    /\ exit_status' = Some(0)
    /\ UNCHANGED <<pvars, cfgvars, cntvars, work, resp, fs0, acts, run>>

\* The same command is run once more on what the first run left.
RunAgain ==
    /\ run = 1
    /\ epc \in {"done", "raised"}
    /\ run' = 2
    /\ epc' = "start"
    /\ work' = <<>>
    /\ resp' = NoAnswer
    /\ exit_status' = None
    /\ acts' = <<>>
    /\ fs0' = fs
    /\ count_dirs_created' = 0
    /\ count_files_created' = 0
    /\ count_skipped' = 0
    /\ UNCHANGED <<pvars, cfgvars, fs>>

\* ------------------------------------------------------------ execute inputs
R == <<"r">>

\* The lines below the root "r" of the texts parsed for execute.
ExecLines == {A, B \o <<SLASH>>, B \o <<SLASH>> \o A}

\* Node i of the arena belongs to the tree under node 1.
RECURSIVE InTree(_, _)
InTree(ns, i) ==
    \/ i = 1
    \/ /\ ns[i].parent # 0
       /\ \E k \in 1..Len(ns[ns[i].parent].children) : ns[ns[i].parent].children[k] = i
       /\ InTree(ns, ns[i].parent)

\* The tree parse returns: the nodes reachable from the root, in the order
\* of their creation (a node no directory holds is garbage).
ReturnedTree(ns) ==
    LET keep == {i \in 1..Len(ns) : InTree(ns, i)}
        new(i) == Cardinality({j \in keep : j <= i})
        old(k) == CHOOSE i \in keep : new(i) = k
    IN  [k \in 1..Cardinality(keep) |->
            [name |-> ns[old(k)].name,
             kind |-> ns[old(k)].kind,
             parent |-> IF ns[old(k)].parent = 0 THEN 0 ELSE new(ns[old(k)].parent),
             children |-> [c \in 1..Len(ns[old(k)].children) |->
                              new(ns[old(k)].children[c])]]]

SeqsUpTo(S, n) == UNION {[1..k -> S] : k \in 0..n}

\* The paths at which execute places the nodes of the tree.
RECURSIVE NodePath(_, _)
NodePath(ns, i) ==
    IF ns[i].parent = 0 THEN PathJoin(<<>>, ns[i].name)
    ELSE PathJoin(NodePath(ns, ns[i].parent), ns[i].name)

\* The filesystems execute may find: nothing there, or one of the tree's
\* paths taken by a directory or by a file with old content.
StartFS(ns) ==
    {EmptyFS}
    \cup {[dirs |-> Prefixes(NodePath(ns, i)), files |-> <<>>] : i \in 1..Len(ns)}
    \cup {[dirs |-> Prefixes(Parent(NodePath(ns, i))),
           files |-> (NodePath(ns, i) :> <<"o">>)] : i \in 1..Len(ns)}

\* --exclude: nothing; ^b and a; r.
PatternLists ==
    {<<>>, <<Pattern(TRUE, B), Pattern(FALSE, A)>>, <<Pattern(FALSE, R)>>}

\* --templates-dir: none; a directory with a template "a", readable or not.
TemplateDirs ==
    {None, Some(A :> Template(<<"t">>, TRUE)), Some(A :> Template(<<"t">>, FALSE))}

InitExec ==
    /\ impl = "v2"
    /\ \E text \in SeqsUpTo(ExecLines, MaxExecLines) :
          LET r == parse("v2", <<R>> \o text)
          IN  /\ r.status = "done"
              /\ SetInit([PStart EXCEPT !.status = "done",
                                        !.nodes = ReturnedTree(r.nodes)])
    /\ dry_run \in BOOLEAN
    /\ confirm \in BOOLEAN
    /\ templates_dir \in TemplateDirs
    /\ exclude_patterns \in PatternLists
    /\ export_json \in {None, Some(ExportPath)}
    /\ count_dirs_created = 0
    /\ count_files_created = 0
    /\ count_skipped = 0
    /\ epc = "start"
    /\ work = <<>>
    /\ resp = NoAnswer
    /\ exit_status = None
    /\ fs \in StartFS(nodes)
    /\ fs0 = fs
    /\ readonly \in {{}} \cup {{d} : d \in fs.dirs}
    /\ acts = <<>>
    /\ run = 1

NextExec == Begin \/ Recurse \/ Export \/ RunAgain

SpecExec == InitExec /\ [][NextExec]_vars

\* ------------------------------------------------------------ parser claims
\* The line just read was a non-root surviving line with a non-empty name.
EntryLine == last.outcome \in {"entry", "error"}

IsDirectory(i) == nodes[i].kind = "dir"

\* C1: in every DirectoryNode the children have pairwise-distinct names;
\* of the entries declared under one parent with one name the child kept is
\* the first declared (every later one has a greater arena index and is not
\* a child), and the children stand in the order of their first declaration.
C1_DistinctFirstWins ==
    \A p \in 1..Len(nodes) :
        LET ch == nodes[p].children
        IN  /\ \A i, j \in 1..Len(ch) : i # j => nodes[ch[i]].name # nodes[ch[j]].name
            /\ \A i, j \in 1..Len(ch) : i < j => ch[i] < ch[j]
            /\ \A n \in 1..Len(nodes) :
                   nodes[n].parent = p =>
                       \E k \in 1..Len(ch) :
                           /\ nodes[ch[k]].name = nodes[n].name
                           /\ ch[k] <= n

\* C1 witness: parse returned a tree in which a later entry of another kind
\* was declared under the same parent with the name of a kept child.
C1_Witness ==
    /\ status = "done"
    /\ \E n \in 1..Len(nodes) :
           /\ nodes[n].parent # 0
           /\ \E k \in 1..Len(nodes[nodes[n].parent].children) :
                  LET c == nodes[nodes[n].parent].children[k]
                  IN  c # n /\ nodes[c].name = nodes[n].name
                      /\ nodes[c].kind # nodes[n].kind

HasBranch(txt) == \E i \in 1..Len(txt) : txt[i] \in {TEE, ELL}

\* 0-based position of the first branch glyph.
FirstBranch(txt) ==
    (CHOOSE i \in 1..Len(txt) :
        txt[i] \in {TEE, ELL} /\ \A j \in 1..(i - 1) : txt[j] \notin {TEE, ELL}) - 1

VertBefore(txt) == Cardinality({i \in 1..FirstBranch(txt) : txt[i] = VERT})

\* The number of leading characters of txt that belong to cs.
Leading(txt, cs) ==
    CHOOSE n \in 0..Len(txt) :
        /\ \A i \in 1..n : txt[i] \in cs
        /\ n = Len(txt) \/ txt[n + 1] \notin cs

C3_Claimed ==
    EntryLine =>
        IF last.level + 1 > last.height
        THEN /\ status = "error"
             /\ err = [kind |-> "indent", lineno |-> lineno,
                       level |-> last.level, max |-> last.height - 1]
             /\ Len(nodes) = last.first - 1
        ELSE status # "error" /\ err = NoErr

\* C3 restricted to v2, where it holds.
C3_V2 == impl = "v2" => C3_Claimed

\* C4: the node made for the last segment of an entry line is a directory
\* iff the comment-stripped line, trailing whitespace trimmed, ends with a
\* slash; every earlier segment yields a directory.
C4_Claimed ==
    last.outcome = "entry" =>
        \A k \in 1..Len(last.parts) :
            nodes[last.first + k - 1].kind =
                IF k < Len(last.parts) THEN "dir"
                ELSE IF EndsWith(RStripSet(SplitComment(last.line), WS), SLASH)
                THEN "dir"
                ELSE "file"

\* C4 restricted to v2, where it holds.
C4_V2 == impl = "v2" => C4_Claimed

\* ------------------------------------------------------------ execute claims
RECURSIVE Flatten(_)
Flatten(ss) == IF ss = <<>> THEN <<>> ELSE Head(ss) \o Flatten(Tail(ss))

\* The nodes under i in depth-first pre-order, children in their order.
RECURSIVE Preorder(_, _)
Preorder(ns, i) ==
    <<i>> \o Flatten([k \in 1..Len(ns[i].children) |-> Preorder(ns, ns[i].children[k])])

\* The names from the root down to node i, the root's own name not included.
RECURSIVE RootRelative(_)
RootRelative(i) ==
    IF nodes[i].parent = 0 THEN <<>>
    ELSE Append(RootRelative(nodes[i].parent), nodes[i].name)

\* The names from the root down to node i, the root's own name included.
FromRoot(i) == <<nodes[1].name>> \o RootRelative(i)

MatchesSome(path) ==
    \E k \in 1..Len(exclude_patterns) : search(exclude_patterns[k], PathStr(path))

Skipped(k) == acts[k].op = "skip"

\* C5: a node is skipped exactly when its root-relative path (the root's
\* name not included) matches a pattern; a skipped node gets no action and
\* one skip count, no other node is counted as skipped.
C5_Claimed ==
    /\ \A k \in 1..Len(acts) :
           /\ Skipped(k) <=> MatchesSome(RootRelative(acts[k].node))
           /\ Skipped(k) => acts[k].after = acts[k].before
    /\ count_skipped = Cardinality({k \in 1..Len(acts) : Skipped(k)})

\* C5 with the path the code tests, which starts with the root's name.
C5_WithRootName ==
    /\ \A k \in 1..Len(acts) :
           /\ Skipped(k) <=> MatchesSome(FromRoot(acts[k].node))
           /\ Skipped(k) => acts[k].after = acts[k].before
    /\ count_skipped = Cardinality({k \in 1..Len(acts) : Skipped(k)})

Untouched ==
    /\ fs = fs0
    /\ acts = <<>>
    /\ count_dirs_created = 0
    /\ count_files_created = 0
    /\ count_skipped = 0

\* The answer is a y or Y with nothing but whitespace around it.
ExplicitYes(answer) ==
    /\ answer.kind = "line"
    /\ \E i \in 1..Len(answer.text) :
           /\ answer.text[i] \in {"y", "Y"}
           /\ \A j \in 1..Len(answer.text) : j # i => answer.text[j] \in WS

\* C6: with confirm and without dry_run nothing is created, written or
\* counted unless the answer read is the affirmative one; any other answer,
\* or none (EOF, interrupt), ends with exit status 1.
C6_Gate ==
    (confirm /\ ~dry_run /\ ~ExplicitYes(resp)) =>
        /\ Untouched
        /\ epc \in {"start", "exit"}
        /\ resp.kind # "none" => epc = "exit" /\ exit_status = Some(1)

\* C6 witness: no input at all at the prompt of a run that was to export
\* the tree of a root with children.
C6_Witness ==
    /\ confirm /\ ~dry_run
    /\ resp.kind = "EOFError"
    /\ epc = "exit"
    /\ export_json # None
    /\ nodes[1].children # <<>>

\* The traversal of a run that reached its summary: every node once, in
\* pre-order, skipped as its path from the root says, the counters to match.
RunShape ==
    epc = "done" =>
        /\ [k \in 1..Len(acts) |-> acts[k].node] = Preorder(nodes, 1)
        /\ \A k \in 1..Len(acts) : Skipped(k) <=> MatchesSome(FromRoot(acts[k].node))
        /\ count_skipped = Cardinality({k \in 1..Len(acts) : Skipped(k)})
        /\ count_dirs_created =
               Cardinality({k \in 1..Len(acts) :
                               ~Skipped(k) /\ nodes[acts[k].node].kind = "dir"})
        /\ count_files_created =
               Cardinality({k \in 1..Len(acts) :
                               ~Skipped(k) /\ nodes[acts[k].node].kind = "file"})

\* C7: a dry run leaves the filesystem as it was, reads no answer, and
\* visits, skips and counts as a run that is not dry.
C7_Claimed ==
    /\ dry_run => fs = fs0 /\ resp = NoAnswer
    /\ RunShape

\* C7 but for the export: a dry run changes nothing before its export, and
\* then nothing but the export file.
C7_ButExport ==
    /\ dry_run => /\ resp = NoAnswer
                  /\ fs.dirs = fs0.dirs
                  /\ \A p \in (DOMAIN fs.files \cup DOMAIN fs0.files) \ {ExportPath} :
                         EntryAt(fs, p) = EntryAt(fs0, p)
                  /\ (epc # "done" \/ export_json = None) => fs = fs0
    /\ RunShape

\* C8: an I/O error at a node never leaves execute: the traversal goes on
\* and execute reaches its summary.
C8_Claimed == epc # "raised"

\* C8 for the errors the code catches: a failed write or touch is followed
\* by the rest of the traversal; only a mkdir ends execute.
C8_Caught ==
    /\ \A k \in 1..Len(acts) :
           (~acts[k].ok /\ acts[k].op \in {"write", "touch"}) => epc # "raised"
               \/ k < Len(acts)
    /\ epc = "raised" => acts[Len(acts)].op \in {"mkdir", "parent-mkdir"}

\* C9: a second run, not dry and without templates, ends with the
\* filesystem the first run left and raises no error.
C9_Claimed ==
    (run = 2 /\ ~dry_run /\ templates_dir = None /\ epc \in {"done", "raised"}) =>
        fs = fs0 /\ epc = "done"

\* C9 without the error: the second run leaves the filesystem as the first
\* left it.
C9_SameState ==
    (run = 2 /\ ~dry_run /\ templates_dir = None) => fs = fs0

FileActs == {k \in 1..Len(acts) : acts[k].op \in {"write", "touch"}}

\* The template content for the file of act k, None when there is none.
Found(k) ==
    LET name == acts[k].path[Len(acts[k].path)]
    IN  IF templates_dir # None /\ name \in DOMAIN templates_dir[1]
           /\ templates_dir[1][name].readable
        THEN Some(templates_dir[1][name].text)
        ELSE None

Processed == [k \in 1..Len(acts) |-> acts[k].node]

\* Every processed node was placed at the names from the root down to it.
PlacedByName == \A k \in 1..Len(acts) : acts[k].path = FromRoot(acts[k].node)

\* C11: an execute that began its traversal has, when it ends, processed
\* every node of the tree exactly once, in depth-first pre-order from the
\* root with the children in their order, each node at its parent's path
\* joined with its name.
C11_Claimed ==
    (epc \in {"done", "raised"}) =>
        /\ Processed = Preorder(nodes, 1)
        /\ PlacedByName

\* C11 for what the traversal does as far as it gets: at every moment the
\* processed nodes are an initial part of the pre-order, each at its path,
\* and a traversal that reaches the summary has processed all of it.
C11_Preorder ==
    /\ Len(Processed) <= Len(Preorder(nodes, 1))
    /\ Processed = SubSeq(Preorder(nodes, 1), 1, Len(Processed))
    /\ PlacedByName
    /\ epc = "done" => Processed = Preorder(nodes, 1)

\* A name is a non-empty string without a path separator.
PlainName(name) == name # <<>> /\ \A i \in 1..Len(name) : name[i] # SLASH

\* C12: every node of a tree parse returns, the root included, has a
\* non-empty name without a path separator.
C12_Claimed ==
    status = "done" =>
        \A i \in 1..Len(nodes) : InTree(nodes, i) => PlainName(nodes[i].name)

\* C12 for the nodes below the root, and for the root of v2 its being
\* non-empty: these hold at every point of parse.
C12_BelowRoot ==
    /\ \A i \in 2..Len(nodes) : PlainName(nodes[i].name)
    /\ (impl = "v2" /\ nodes # <<>>) => nodes[1].name # <<>>

\* Node c stands in the children sequence of node p.
ChildOf(c, p) == \E k \in 1..Len(nodes[p].children) : nodes[p].children[k] = c

\* C13: at every point of parse the bottom of the level stack is the root
\* and every other stack element stands in the children of its parent; so
\* every node that a directory holds is reachable from the root.
C13_Claimed ==
    /\ stack # <<>> => stack[1] = 1
    /\ \A k \in 2..Len(stack) : ChildOf(stack[k], nodes[stack[k]].parent)
    /\ \A n \in 2..Len(nodes) : ChildOf(n, nodes[n].parent) => InTree(nodes, n)

\* C13 for what the stack does hold: directories, the root at the bottom,
\* each other element created with the element below it as its parent.
C13_StackChain ==
    /\ stack # <<>> => stack[1] = 1
    /\ \A k \in 1..Len(stack) : IsDirectory(stack[k])
    /\ \A k \in 2..Len(stack) : nodes[stack[k]].parent = stack[k - 1]

\* The nodes of the tree execute was given.
TreeNodes == {n \in 1..Len(nodes) : InTree(nodes, n)}

\* Execute excluded node n: some action taken for it was the skip.
Excluded(n) == \E k \in 1..Len(acts) : acts[k].node = n /\ Skipped(k)

\* C14: after an execute that reached its summary, dry or not, every node
\* has added one to exactly one counter: the skip counter if it was
\* excluded, else the directory or the file counter by its kind; the three
\* add up to the number of nodes, and without patterns the directory and
\* file counters are the numbers of directory and file nodes.
C14_Counters ==
    epc = "done" =>
        /\ count_skipped = Cardinality({n \in TreeNodes : Excluded(n)})
        /\ count_dirs_created =
               Cardinality({n \in TreeNodes : ~Excluded(n) /\ IsDirectory(n)})
        /\ count_files_created =
               Cardinality({n \in TreeNodes : ~Excluded(n) /\ ~IsDirectory(n)})
        /\ count_dirs_created + count_files_created + count_skipped
               = Cardinality(TreeNodes)
        /\ exclude_patterns = <<>> =>
               /\ count_skipped = 0
               /\ count_dirs_created = Cardinality({n \in TreeNodes : IsDirectory(n)})
               /\ count_files_created = Cardinality({n \in TreeNodes : ~IsDirectory(n)})

\* C14 witness: a dry run reached its summary having skipped a node and
\* counted two directories.
C14_Witness ==
    /\ epc = "done"
    /\ dry_run
    /\ count_skipped >= 1
    /\ count_dirs_created >= 2

\* C14 second case: a run that was not dry reached its summary having
\* counted a file whose write or touch had failed.
C14_FailedFileCounted ==
    /\ epc = "done"
    /\ ~dry_run
    /\ \E k \in FileActs : ~acts[k].ok
    /\ count_files_created >= 1

====
